---- MODULE Spec2Model ----
(***************************************************************************)
(* Model of src/src/lib/sip-client.ts: the SIPClient wrapper around the    *)
(* JsSIP user agent.  The client's own state is the two private fields ua  *)
(* and currentSession; the JsSIP objects it creates (UA, RTCSession) are   *)
(* modelled by the part of their state the client reads (isRegistered,     *)
(* isConnected, direction) and by the events they emit to the listeners    *)
(* the client installs.  The application is modelled by what it observes   *)
(* (the two callbacks) and by what it may do from inside a call-state      *)
(* notification (nothing, hangup() or answer()).                           *)
(*                                                                         *)
(* Handlers run synchronously and call one another (hangup -> terminate -> *)
(* 'failed' listener -> onCallStateChange -> ...), so every method and     *)
(* listener is an operator from a state record to a state record, and an   *)
(* action applies one of them to the current state.                        *)
(***************************************************************************)
EXTENDS Naturals, Sequences, FiniteSets

\* Bounds of the model.
\* JsSIP objects (user agents and sessions) the client may create in a run.
MaxObjects == 3
MaxReentry == 1
MaxProgress == 1
MaxTerminate == 2
\* Remote tracks a peer connection may deliver.
MaxTracks == 1
\* Consecutive failed register requests that are counted.
MaxRegFails == 6
\* Characters of a configured server list.
MaxLen == 6

VARIABLES
  ua,              \* SIPClient.ua: 0 is null, else the id of a JsSIP.UA
  currentSession,  \* SIPClient.currentSession: 0 is null, else a session id
  uas,             \* the JsSIP.UA objects created by connect()
  sessions,        \* the JsSIP.RTCSession objects created by the UAs
  callLog,         \* per session, the states delivered to onCallStateChange
  connStatus,      \* the status last delivered to onConnectionChange
  connOut,         \* the statuses delivered to onConnectionChange by the last step
  termCalls,       \* per session, how often terminate() was invoked on it
  termDead,        \* sessions on which terminate() was invoked after they ended
  ansCalls,        \* per session, how often answer(options) was invoked on it
  ontrack,         \* sessions whose peer connection has the client's ontrack handler
  audio,           \* per session, the audio elements appended to document.body for it
  lastOp,          \* the operation or event of the last step
  lastErr,         \* the exception the last step ended with, or "none"
  regPending,      \* UAs with a register request sent and not yet answered
  regFails,        \* register requests that failed since the last one succeeded
  stunConfig,      \* config.stunServers, a string as the sequence of its characters
  pcConfig         \* the pcConfig built for a call or an answer, once built

vars == <<ua, currentSession, uas, sessions, callLog, connStatus, connOut,
          termCalls, termDead, ansCalls, ontrack, audio, lastOp, lastErr,
          regPending, regFails, stunConfig, pcConfig>>

UAIds == 1..MaxObjects
\* A session needs a user agent, so one object less can be a session.
SessionIds == 1..(MaxObjects - 1)

\* What the application may do from inside onCallStateChange.
Reactions == {"none", "hangup", "answer"}

RECURSIVE SeqsUpTo(_, _)
SeqsUpTo(S, n) ==
  IF n = 0 THEN {<<>>}
  ELSE LET shorter == SeqsUpTo(S, n - 1)
       IN shorter \cup {<<x>> \o q : x \in S, q \in {r \in shorter : Len(r) = n - 1}}

\* One reaction per level of nesting of the notifications of one step.
ReactionSeqs == SeqsUpTo(Reactions, MaxReentry)

React(rs) == IF rs = <<>> THEN "none" ELSE Head(rs)
Rest(rs) == IF rs = <<>> THEN <<>> ELSE Tail(rs)

NoUA == [status |-> "none", connected |-> FALSE, registered |-> FALSE,
         unregPending |-> FALSE]
NoSession == [status |-> "none", direction |-> "none", owner |-> 0,
              listeners |-> FALSE]

\* The state as one record, so that handlers compose.
St == [ua |-> ua, cur |-> currentSession, uas |-> uas, sess |-> sessions,
       log |-> callLog, conn |-> connStatus, out |-> <<>>,
       term |-> termCalls, dead |-> termDead, ans |-> ansCalls,
       pc |-> ontrack, audio |-> audio, exc |-> "none"]

\* The label of a step: the operation or event, the UA or session it concerns,
\* and what the application does in the first notification of the step.
Op(name, id, rs) == [op |-> name, id |-> id, r1 |-> React(rs)]

CommitState(op, st) ==
  /\ ua' = st.ua
  /\ currentSession' = st.cur
  /\ uas' = st.uas
  /\ sessions' = st.sess
  /\ callLog' = st.log
  /\ connStatus' = st.conn
  /\ connOut' = st.out
  /\ termCalls' = st.term
  /\ termDead' = st.dead
  /\ ansCalls' = st.ans
  /\ ontrack' = st.pc
  /\ audio' = st.audio
  /\ lastOp' = op
  /\ lastErr' = st.exc
  /\ UNCHANGED <<stunConfig, pcConfig>>

\* A step of the client that is observed without its register requests.
Commit(op, st) ==
  /\ CommitState(op, st)
  /\ UNCHANGED <<regPending, regFails>>

LiveStatuses == {"invite_sent", "1xx_received", "waiting_for_answer",
                 "answered", "waiting_for_ack", "confirmed"}
EarlyStatuses == {"invite_sent", "1xx_received", "waiting_for_answer", "answered"}

\* The characters a server list is written with: two that are neither blank
\* nor separators, the blank, the field separator and the line separator.
Chars == {"a", "b", " ", ",", "\n"}
WhiteSpace == {" ", "\n"}
Strings == SeqsUpTo(Chars, MaxLen)

\* One STUN server, as in a configuration form.
DefaultStunServers == <<"a">>
NoPcConfig == [built |-> FALSE, iceServers |-> <<>>]

InitClient ==
  /\ ua = 0
  /\ currentSession = 0
  /\ uas = [u \in UAIds |-> NoUA]
  /\ sessions = [s \in SessionIds |-> NoSession]
  /\ callLog = [s \in SessionIds |-> <<>>]
  /\ connStatus = "none"
  /\ connOut = <<>>
  /\ termCalls = [s \in SessionIds |-> 0]
  /\ termDead = {}
  /\ ansCalls = [s \in SessionIds |-> 0]
  /\ ontrack = {}
  /\ audio = [s \in SessionIds |-> 0]
  /\ lastOp = Op("new", 0, <<>>)
  /\ lastErr = "none"
  /\ regPending = {}
  /\ regFails = 0
  /\ pcConfig = NoPcConfig

Init ==
  /\ InitClient
  /\ stunConfig = DefaultStunServers

(***************************************************************************)
(* The JsSIP objects and the client's methods and listeners.               *)
(***************************************************************************)
FreeSessions(st) == {s \in SessionIds : st.sess[s].status = "none"}
FreeUAs(st) == {u \in UAIds : st.uas[u].status = "none"}
\* Whether the run may create one more object.
CanCreate(st) ==
  Cardinality(UAIds \ FreeUAs(st)) + Cardinality(SessionIds \ FreeSessions(st)) < MaxObjects
\* Ids are handed out in order: the next object is the lowest unused id.
NextSession(st) == CHOOSE s \in FreeSessions(st) : \A t \in FreeSessions(st) : s <= t
NextUA(st) == CHOOSE u \in FreeUAs(st) : \A t \in FreeUAs(st) : u <= t

Bump(n) == IF n < MaxTerminate THEN n + 1 ELSE n

RECURSIVE Count(_, _)
Count(q, x) ==
  IF q = <<>> THEN 0 ELSE (IF Head(q) = x THEN 1 ELSE 0) + Count(Tail(q), x)

RECURSIVE onCallStateChange(_, _, _, _), hangup(_, _), answer(_, _),
          sessionTerminate(_, _, _), sessionAnswer(_, _), emit(_, _, _, _),
          onFailed(_, _, _), onEnded(_, _, _)

\* The application's call-state callback: it records the notification and
\* may call back into the client before it returns.
onCallStateChange(st, state, s, rs) ==
  LET st1 == [st EXCEPT !.log[s] = Append(@, state)]
  IN CASE React(rs) = "hangup" -> hangup(st1, Rest(rs))
       [] React(rs) = "answer" -> answer(st1, Rest(rs))
       [] OTHER -> st1

\* The application's connection callback.
onConnectionChange(st, status) ==
  [st EXCEPT !.conn = status, !.out = Append(@, status)]

\* session.on('peerconnection'): sets pc.ontrack.
onPeerConnection(st, s) == [st EXCEPT !.pc = @ \cup {s}]

\* pc.ontrack: a new audio element for the track's stream is appended to
\* document.body.
onTrack(st, s) == [st EXCEPT !.audio[s] = @ + 1]

\* session.on('accepted') and session.on('confirmed').
onAccepted(st, s, rs) == onCallStateChange(st, "answered", s, rs)
onConfirmed(st, s, rs) == onCallStateChange(st, "answered", s, rs)

\* session.on('progress').
onProgress(st, s, rs) == onCallStateChange(st, "ringing", s, rs)

\* session.on('failed'): the callback, then the clear; an exception thrown
\* by the callback leaves the handler before the clear.
\* The 'failed' listener without its clearing of currentSession.
onFailed_KeepsSession(st, s, rs) ==
  onCallStateChange(st, "failed", s, rs)

onFailed(st, s, rs) ==
  LET st1 == onCallStateChange(st, "failed", s, rs)
  IN IF st1.exc # "none" THEN st1 ELSE [st1 EXCEPT !.cur = 0]

\* session.on('ended').
onEnded(st, s, rs) ==
  LET st1 == onCallStateChange(st, "ended", s, rs)
  IN IF st1.exc # "none" THEN st1 ELSE [st1 EXCEPT !.cur = 0]

\* RTCSession.emit: the listeners exist once the newRTCSession handler has
\* installed them.
emit(st, s, ev, rs) ==
  IF ~st.sess[s].listeners THEN st
  ELSE CASE ev = "peerconnection" -> onPeerConnection(st, s)
         [] ev = "accepted" -> onAccepted(st, s, rs)
         [] ev = "confirmed" -> onConfirmed(st, s, rs)
         [] ev = "progress" -> onProgress(st, s, rs)
         [] ev = "failed" -> onFailed(st, s, rs)
         [] ev = "ended" -> onEnded(st, s, rs)

\* RTCSession.terminate(), as hangup() calls it: on a session that has not
\* terminated it cancels, rejects or sends a bye and emits 'failed' (before
\* the call is established) or 'ended' synchronously; on a terminated
\* session it throws InvalidStateError.
sessionTerminate(st, s, rs) ==
  LET st1 == [st EXCEPT !.term[s] = Bump(@)]
  IN IF st.sess[s].status \notin LiveStatuses
     THEN [st1 EXCEPT !.dead = @ \cup {s}, !.exc = "InvalidStateError"]
     ELSE LET st2 == [st1 EXCEPT !.sess[s].status = "terminated"]
          IN IF st.sess[s].status \in EarlyStatuses
             THEN emit(st2, s, "failed", rs)
             ELSE emit(st2, s, "ended", rs)

\* RTCSession.answer(options), as answer() calls it: valid only while the
\* incoming session waits for an answer, else InvalidStateError; it creates
\* the peer connection and emits 'peerconnection'.
sessionAnswer(st, s) ==
  LET st1 == [st EXCEPT !.ans[s] = Bump(@)]
  IN IF st.sess[s].status = "waiting_for_answer"
     THEN emit([st1 EXCEPT !.sess[s].status = "answered"], s, "peerconnection", <<>>)
     ELSE [st1 EXCEPT !.exc = "InvalidStateError"]

\* SIPClient.hangup().
hangup(st, rs) ==
  IF st.cur # 0
  THEN LET st1 == sessionTerminate(st, st.cur, rs)
       IN IF st1.exc # "none" THEN st1 ELSE [st1 EXCEPT !.cur = 0]
  ELSE st

\* SIPClient.answer().
answer(st, rs) ==
  IF st.cur # 0 /\ st.sess[st.cur].direction = "incoming"
  THEN sessionAnswer(st, st.cur)
  ELSE st

\* Mutant of the newRTCSession handler: an incoming session is announced
\* before it is recorded and its listeners installed.
onNewRTCSession_AnnounceFirst(st, s, rs) ==
  LET st1 == IF st.sess[s].direction = "incoming"
             THEN onCallStateChange(st, "incoming", s, rs)
             ELSE st
  IN [st1 EXCEPT !.cur = s, !.sess[s].listeners = TRUE]

\* ua.on('newRTCSession'): record the session, install the listeners, and
\* announce an incoming session.
onNewRTCSession(st, s, rs) ==
  LET st1 == [st EXCEPT !.cur = s, !.sess[s].listeners = TRUE]
  IN IF st1.sess[s].direction = "incoming"
     THEN onCallStateChange(st1, "incoming", s, rs)
     ELSE st1

\* UA.call(target, options): a target that is no SIP URI throws TypeError;
\* else the new outgoing session creates its peer connection and emits
\* 'peerconnection' (no listener exists yet), and is then announced by
\* 'newRTCSession' before call() returns.
uaCall(st, u, phoneNumber) ==
  IF phoneNumber = "invalid" THEN [st EXCEPT !.exc = "TypeError"]
  ELSE LET s == NextSession(st)
           st1 == [st EXCEPT !.sess[s] = [status |-> "invite_sent",
                                          direction |-> "outgoing",
                                          owner |-> u, listeners |-> FALSE]]
       IN onNewRTCSession(emit(st1, s, "peerconnection", <<>>), s, <<>>)

\* SIPClient.isRegistered() and SIPClient.isConnected().
isRegistered(st) == IF st.ua = 0 THEN FALSE ELSE st.uas[st.ua].registered
isConnected(st) == IF st.ua = 0 THEN FALSE ELSE st.uas[st.ua].connected

\* Mutant of call: the registration is not checked, only the UA's existence.
call_NoRegisteredCheck(st, phoneNumber) ==
  IF st.ua = 0
  THEN [st EXCEPT !.exc = "Not registered"]
  ELSE uaCall(st, st.ua, phoneNumber)

\* SIPClient.call(phoneNumber).
call(st, phoneNumber) ==
  IF st.ua = 0 \/ ~st.uas[st.ua].registered
  THEN [st EXCEPT !.exc = "Not registered"]
  ELSE uaCall(st, st.ua, phoneNumber)

\* SIPClient.connect(): a new UA, its listeners, and start().
connect(st) ==
  LET u == NextUA(st)
  IN [st EXCEPT !.ua = u,
                !.uas[u] = [status |-> "started", connected |-> FALSE,
                            registered |-> FALSE, unregPending |-> FALSE]]

\* UA.stop(): closes the registrator (the 'unregistered' event follows the
\* server's answer), terminates every session of this UA inside a try/catch,
\* and leaves the transport to close.
RECURSIVE stopSessions(_, _, _, _)
stopSessions(st, u, i, rs) ==
  IF i \notin SessionIds THEN st
  ELSE IF st.sess[i].owner = u /\ st.sess[i].status \in LiveStatuses
       THEN stopSessions([sessionTerminate(st, i, rs) EXCEPT !.exc = "none"], u, i + 1, rs)
       ELSE stopSessions(st, u, i + 1, rs)

uaStop(st, u, rs) ==
  IF st.uas[u].status = "stopped" THEN st
  ELSE LET st1 == [st EXCEPT !.uas[u].unregPending = st.uas[u].registered,
                             !.uas[u].registered = FALSE]
           st2 == stopSessions(st1, u, 1, rs)
       IN [st2 EXCEPT !.uas[u].status = "stopped"]

\* Mutant of disconnect: the UA is stopped but the reference is kept.
disconnect_KeepsReference(st, rs) ==
  IF st.ua # 0
  THEN uaStop(st, st.ua, rs)
  ELSE st

\* SIPClient.disconnect().
disconnect(st, rs) ==
  IF st.ua # 0
  THEN [uaStop(st, st.ua, rs) EXCEPT !.ua = 0]
  ELSE st

\* The UA receives an invite: the session is created waiting for an answer,
\* 'newRTCSession' is emitted, and unless the application terminated the
\* session in it, 180 is sent and 'progress' emitted.
uaIncoming(st, u, rs1, rs2) ==
  LET s == NextSession(st)
      st1 == onNewRTCSession(
               [st EXCEPT !.sess[s] = [status |-> "waiting_for_answer",
                                       direction |-> "incoming", owner |-> u,
                                       listeners |-> FALSE]], s, rs1)
  IN IF st1.exc # "none" \/ st1.sess[s].status = "terminated" THEN st1
     ELSE emit(st1, s, "progress", rs2)

\* ua.on('connected'), 'disconnected', 'registered', 'unregistered',
\* 'registrationFailed'.
onConnected(st) == onConnectionChange(st, "connected")
onDisconnected(st) == onConnectionChange(st, "disconnected")
onRegistered(st) == onConnectionChange(st, "registered")
onUnregistered(st) == onConnectionChange(st, "disconnected")
onRegistrationFailed(st) == onConnectionChange(st, "error")

\* String.prototype.split(sep) for a separator of one character: the pieces
\* between the separators, empty pieces included; never an empty array.
RECURSIVE split(_, _, _)
split(str, sep, piece) ==
  IF str = <<>> THEN <<piece>>
  ELSE IF Head(str) = sep THEN <<piece>> \o split(Tail(str), sep, <<>>)
  ELSE split(Tail(str), sep, Append(piece, Head(str)))

\* String.prototype.trim(): drops the white space at both ends.
RECURSIVE trimStart(_)
trimStart(str) ==
  IF str # <<>> /\ Head(str) \in WhiteSpace THEN trimStart(Tail(str)) ELSE str

RECURSIVE trimEnd(_)
trimEnd(str) ==
  IF str # <<>> /\ str[Len(str)] \in WhiteSpace
  THEN trimEnd(SubSeq(str, 1, Len(str) - 1)) ELSE str

trim(str) == trimEnd(trimStart(str))

\* The body of the loop of parseStunServers with parts.length >= 3.
iceServer_AtLeastThree(line) ==
  LET parts == split(line, ",", <<>>)
      urls == trim(parts[1])
  IN IF Len(parts) >= 3
     THEN [urls |-> <<urls>>, username |-> trim(parts[2]),
           credential |-> trim(parts[3])]
     ELSE [urls |-> <<urls>>]

\* The body of the loop of parseStunServers: the entry pushed for a line.
iceServer(line) ==
  LET parts == split(line, ",", <<>>)
      urls == trim(parts[1])
  IN IF Len(parts) = 3
     THEN [urls |-> <<urls>>, username |-> trim(parts[2]),
           credential |-> trim(parts[3])]
     ELSE [urls |-> <<urls>>]

RECURSIVE pushServers(_, _)
pushServers(servers, lines) ==
  IF lines = <<>> THEN servers
  ELSE pushServers(Append(servers, iceServer(Head(lines))), Tail(lines))

\* parseStunServers(stunConfig): an empty string is falsy, so the filter
\* keeps the lines whose trim is not empty.
parseStunServers(config) ==
  LET truthy(line) == trim(line) # <<>>
      lines == SelectSeq(split(config, "\n", <<>>), truthy)
  IN pushServers(<<>>, lines)

\* The events of a UA's transport and registrator, with the listeners they
\* invoke.  Losing the transport loses the registration ('unregistered'); a
\* failed register request loses a registration that existed.
transportConnected(st, u) ==
  onConnected([st EXCEPT !.uas[u].connected = TRUE])

transportDisconnected(st, u) ==
  LET st1 == onDisconnected([st EXCEPT !.uas[u].connected = FALSE])
  IN IF st.uas[u].registered \/ st.uas[u].unregPending
     THEN onUnregistered([st1 EXCEPT !.uas[u].registered = FALSE,
                                     !.uas[u].unregPending = FALSE])
     ELSE st1

registerOk(st, u) ==
  onRegistered([st EXCEPT !.uas[u].registered = TRUE])

registerFailed(st, u) ==
  LET st1 == onRegistrationFailed(st)
  IN IF st.uas[u].registered
     THEN onUnregistered([st1 EXCEPT !.uas[u].registered = FALSE])
     ELSE st1

(***************************************************************************)
(* Actions: the application's calls and the events of the JsSIP objects.   *)
(***************************************************************************)
PhoneNumbers == {"100", "invalid"}

Connect ==
  /\ CanCreate(St)
  /\ Commit(Op("connect", 0, <<>>), connect(St))

Disconnect ==
  \E rs \in ReactionSeqs :
    Commit(Op("disconnect", 0, rs), disconnect(St, rs))

Call ==
  \E n \in PhoneNumbers :
    /\ isRegistered(St) /\ n # "invalid" => CanCreate(St)
    /\ Commit(Op("call", 0, <<>>), call(St, n))

Answer ==
  Commit(Op("answer", 0, <<>>), answer(St, <<>>))

Hangup ==
  \E rs \in ReactionSeqs :
    Commit(Op("hangup", 0, rs), hangup(St, rs))

\* The transport of a UA opens.
UAConnected ==
  \E u \in UAIds :
    /\ uas[u].status = "started" /\ ~uas[u].connected
    /\ Commit(Op("connected", u, <<>>), transportConnected(St, u))

\* The transport of a UA closes: 'disconnected', and the registration is
\* lost with it ('unregistered').
UADisconnected ==
  \E u \in UAIds :
    /\ uas[u].connected
    /\ Commit(Op("disconnected", u, <<>>), transportDisconnected(St, u))

\* A register request of a started UA succeeds (the first or a renewal).
UARegistered ==
  \E u \in UAIds :
    /\ uas[u].status = "started" /\ uas[u].connected
    /\ Commit(Op("registered", u, <<>>), registerOk(St, u))

\* The unregister request of a stopped UA is answered.
UAUnregistered ==
  \E u \in UAIds :
    /\ uas[u].unregPending
    /\ Commit(Op("unregistered", u, <<>>),
              onUnregistered([St EXCEPT !.uas[u].unregPending = FALSE]))

\* A register request of a started UA fails: 'registrationFailed', and a
\* registration that existed is lost ('unregistered').
UARegistrationFailed ==
  \E u \in UAIds :
    /\ uas[u].status = "started" /\ uas[u].connected
    /\ Commit(Op("registrationFailed", u, <<>>), registerFailed(St, u))

\* An invite arrives at a started, connected UA.
IncomingInvite ==
  \E u \in UAIds, rs1 \in ReactionSeqs, rs2 \in ReactionSeqs :
    /\ uas[u].status = "started" /\ uas[u].connected
    /\ CanCreate(St)
    /\ Commit(Op("invite", NextSession(St), rs1), uaIncoming(St, u, rs1, rs2))

\* A provisional response (180, 183) to an outgoing invite.
SessionProgress ==
  \E s \in SessionIds, rs \in ReactionSeqs :
    /\ sessions[s].direction = "outgoing"
    /\ sessions[s].status \in {"invite_sent", "1xx_received"}
    /\ Count(callLog[s], "ringing") < MaxProgress
    /\ Commit(Op("progress", s, rs),
              emit([St EXCEPT !.sess[s].status = "1xx_received"], s, "progress", rs))

\* The 200 to an outgoing invite: 'accepted', the ack, 'confirmed'; nothing
\* more is emitted once the session has terminated.
SessionAcceptedOutgoing ==
  \E s \in SessionIds, rs1 \in ReactionSeqs, rs2 \in ReactionSeqs :
    /\ sessions[s].direction = "outgoing"
    /\ sessions[s].status \in {"invite_sent", "1xx_received"}
    /\ LET st1 == emit([St EXCEPT !.sess[s].status = "confirmed"], s, "accepted", rs1)
       IN Commit(Op("accepted", s, rs1),
                 IF st1.exc # "none" \/ st1.sess[s].status = "terminated" THEN st1
                 ELSE emit(st1, s, "confirmed", rs2))

\* The 200 of an answered incoming session has been sent: 'accepted'.
SessionAcceptedIncoming ==
  \E s \in SessionIds, rs \in ReactionSeqs :
    /\ sessions[s].direction = "incoming"
    /\ sessions[s].status = "answered"
    /\ Commit(Op("accepted", s, rs),
              emit([St EXCEPT !.sess[s].status = "waiting_for_ack"], s, "accepted", rs))

\* The ack of an incoming session arrives: 'confirmed'.
SessionConfirmed ==
  \E s \in SessionIds, rs \in ReactionSeqs :
    /\ sessions[s].direction = "incoming"
    /\ sessions[s].status = "waiting_for_ack"
    /\ Commit(Op("confirmed", s, rs),
              emit([St EXCEPT !.sess[s].status = "confirmed"], s, "confirmed", rs))

\* A session fails before it is established (rejected, cancelled by the
\* remote, no answer, request timeout, media error): 'failed'.
SessionFailed ==
  \E s \in SessionIds, rs \in ReactionSeqs :
    /\ sessions[s].status \in EarlyStatuses
    /\ Commit(Op("failed", s, rs),
              emit([St EXCEPT !.sess[s].status = "terminated"], s, "failed", rs))

\* The no-answer timer of a ringing incoming session expires: the
\* configuration of connect() sets no no_answer_timeout, so the UA keeps its
\* default of 60 seconds, rejects the invite and emits 'failed'.
NoAnswerTimeout ==
  \E s \in SessionIds :
    /\ sessions[s].direction = "incoming"
    /\ sessions[s].status = "waiting_for_answer"
    /\ Commit(Op("failed", s, <<>>),
              emit([St EXCEPT !.sess[s].status = "terminated"], s, "failed", <<>>))

\* An established session ends (remote bye, no ack, dialog error): 'ended'.
SessionEnded ==
  \E s \in SessionIds, rs \in ReactionSeqs :
    /\ sessions[s].status \in {"waiting_for_ack", "confirmed"}
    /\ Commit(Op("ended", s, rs),
              emit([St EXCEPT !.sess[s].status = "terminated"], s, "ended", rs))

\* The peer connection of a live session delivers a remote track to the
\* ontrack handler the client has set.
RemoteTrack ==
  \E s \in SessionIds :
    /\ s \in ontrack
    /\ sessions[s].status \in LiveStatuses
    /\ audio[s] < MaxTracks
    /\ Commit(Op("track", s, <<>>), onTrack(St, s))

Next ==
  \/ Connect
  \/ Disconnect
  \/ Call
  \/ Answer
  \/ Hangup
  \/ UAConnected
  \/ UADisconnected
  \/ UARegistered
  \/ UAUnregistered
  \/ UARegistrationFailed
  \/ IncomingInvite
  \/ SessionProgress
  \/ SessionAcceptedOutgoing
  \/ SessionAcceptedIncoming
  \/ SessionConfirmed
  \/ SessionFailed
  \/ NoAnswerTimeout
  \/ SessionEnded

Spec == Init /\ [][Next]_vars

\* A timer that has been started expires unless it is cancelled: the
\* no-answer timer of a ringing session is not postponed forever.
SpecFair == Spec /\ WF_vars(NoAnswerTimeout)

\* The calls of one client with their media: the operations and events that
\* take a call from its creation to its end, and the arrival of remote
\* tracks.  Every behaviour of SpecMedia is a behaviour of the client.
NextMedia ==
  \/ Connect
  \/ Disconnect
  \/ Call
  \/ Answer
  \/ Hangup
  \/ UAConnected
  \/ UARegistered
  \/ IncomingInvite
  \/ SessionAcceptedOutgoing
  \/ SessionAcceptedIncoming
  \/ SessionConfirmed
  \/ SessionFailed
  \/ NoAnswerTimeout
  \/ SessionEnded
  \/ RemoteTrack

SpecMedia == Init /\ [][NextMedia]_vars

\* The registration of the client with its register requests.  A started UA
\* sends a register request when its transport connects and when a
\* registration is due for renewal (register_expires); the transport is
\* recovered after every loss.  Nothing in the client counts the requests.
RegTransportUp ==
  \E u \in UAIds :
    /\ uas[u].status = "started" /\ ~uas[u].connected
    /\ CommitState(Op("connected", u, <<>>), transportConnected(St, u))
    /\ regPending' = regPending \cup {u}
    /\ UNCHANGED regFails

RegTransportDown ==
  \E u \in UAIds :
    /\ uas[u].connected
    /\ CommitState(Op("disconnected", u, <<>>), transportDisconnected(St, u))
    /\ regPending' = regPending \ {u}
    /\ UNCHANGED regFails

RegRenewal ==
  \E u \in UAIds :
    /\ uas[u].status = "started" /\ uas[u].registered
    /\ u \notin regPending
    /\ CommitState(Op("renew", u, <<>>), St)
    /\ regPending' = regPending \cup {u}
    /\ UNCHANGED regFails

RegSucceeds ==
  \E u \in regPending :
    /\ uas[u].status = "started" /\ uas[u].connected
    /\ CommitState(Op("registered", u, <<>>), registerOk(St, u))
    /\ regPending' = regPending \ {u}
    /\ regFails' = 0

RegFails ==
  \E u \in regPending :
    /\ uas[u].status = "started" /\ uas[u].connected
    /\ regFails < MaxRegFails
    /\ CommitState(Op("registrationFailed", u, <<>>), registerFailed(St, u))
    /\ regPending' = regPending \ {u}
    /\ regFails' = regFails + 1

NextReg ==
  \/ Connect
  \/ Disconnect
  \/ RegTransportUp
  \/ RegTransportDown
  \/ RegRenewal
  \/ RegSucceeds
  \/ RegFails

SpecReg == Init /\ [][NextReg]_vars

\* The server list of the configuration is any string, and call() or
\* answer() builds its pcConfig from it.
InitParse ==
  /\ InitClient
  /\ stunConfig \in Strings

BuildPcConfig ==
  /\ pcConfig' = [built |-> TRUE, iceServers |-> parseStunServers(stunConfig)]
  /\ UNCHANGED <<ua, currentSession, uas, sessions, callLog, connStatus,
                 connOut, termCalls, termDead, ansCalls, ontrack, audio,
                 lastOp, lastErr, regPending, regFails, stunConfig>>

SpecParse == InitParse /\ [][BuildPcConfig]_vars

\* What isRegistered() and isConnected() return in the current state.
Registered == isRegistered(St)
Connected == isConnected(St)

Range(q) == {q[i] : i \in 1..Len(q)}
TerminalStates == {"ended", "failed"}
Terminals(q) == Count(q, "ended") + Count(q, "failed")

(***************************************************************************)
(* Claims.                                                                 *)
(***************************************************************************)

\* C1: call(phoneNumber) while the client is not registered (ua is null, or
\* the UA reports not registered) throws the not-registered error and
\* creates nothing: no session appears at any UA, currentSession, ua and the
\* UAs are unchanged and no call-state notification is delivered; this in
\* every step of every run of connect/disconnect/call/answer/hangup and UA
\* and session events.
C1_CallNotRegistered ==
  [][(lastOp'.op = "call" /\ ~Registered)
       => /\ lastErr' = "Not registered"
          /\ sessions' = sessions
          /\ currentSession' = currentSession
          /\ ua' = ua
          /\ uas' = uas
          /\ callLog' = callLog]_vars

\* C1 witness: a call has just failed with the not-registered error although
\* a UA exists (it lost its registration) and an earlier call is still live.
C1_Witness ==
  /\ lastOp.op = "call"
  /\ lastErr = "Not registered"
  /\ ua # 0
  /\ \E s \in SessionIds : sessions[s].status \in LiveStatuses

\* C2 (as claimed): once 'ended' or 'failed' has been delivered for a
\* session, it is the last notification for that session, and the client
\* does not hold the session as currentSession.
C2_TerminalAbsorbing ==
  \A s \in SessionIds :
    (Range(callLog[s]) \cap TerminalStates # {})
      => /\ callLog[s][Len(callLog[s])] \in TerminalStates
         /\ Terminals(callLog[s]) = 1
         /\ currentSession # s

\* C3 (as claimed): hangup() never fails, terminate() is invoked at most
\* once per session and never on a session that has ended or failed.
C3_HangupIdempotent ==
  /\ lastOp.op = "hangup" => lastErr = "none"
  /\ termDead = {}
  /\ \A s \in SessionIds : termCalls[s] <= 1

\* C4 (as claimed): however the call ends (hangup(), or a 'failed' or
\* 'ended' event), right after that step currentSession is null and every
\* terminated session has had exactly one terminal notification; and a
\* hangup() on a live current session terminates it in that step.
C4_TerminationConverges ==
  /\ lastOp.op \in {"hangup", "failed", "ended"} => currentSession = 0
  /\ \A s \in SessionIds :
       sessions[s].status = "terminated" => Terminals(callLog[s]) = 1

\* C5 (as claimed): when session s raises 'failed' or 'ended' (the
\* application doing nothing in the notification) while currentSession is
\* another, live session, currentSession and ua are unchanged.
C5_OtherCallUntouched ==
  [][\A s \in SessionIds :
       (/\ lastOp'.op \in {"failed", "ended"}
        /\ lastOp'.id = s
        /\ lastOp'.r1 = "none"
        /\ currentSession \in SessionIds \ {s}
        /\ sessions[currentSession].status \in LiveStatuses)
         => /\ currentSession' = currentSession
            /\ ua' = ua]_vars

\* C6 (as claimed): every live session is reachable by hangup(), which acts
\* on currentSession only: every live session is the current one.
C6_LiveSessionsTracked ==
  \A s \in SessionIds :
    sessions[s].status \in LiveStatuses => currentSession = s

\* C7 (as claimed): at most one user agent created by the client is started
\* and not stopped.
C7_OneRegistration ==
  Cardinality({u \in UAIds : uas[u].status = "started"}) <= 1

\* C8: the client is unregistered at construction; disconnect() stops the
\* UA it holds, if any, and releases it, so that isRegistered() and
\* isConnected() are false, and does nothing without a UA; while ua is null
\* every call() throws the not-registered error and creates no session, and
\* only connect() makes ua non-null again.
C8_StopUnregisters ==
  /\ (ua = 0 /\ ~Registered /\ ~Connected)
  /\ [][/\ lastOp'.op = "disconnect"
             => /\ ua' = 0 /\ ~Registered' /\ ~Connected'
                /\ ua # 0 => uas'[ua].status = "stopped" /\ ~uas'[ua].registered
                /\ ua = 0 => /\ uas' = uas /\ sessions' = sessions
                             /\ currentSession' = currentSession
                             /\ callLog' = callLog /\ connStatus' = connStatus
                             /\ lastErr' = "none"
        /\ (ua = 0 /\ lastOp'.op = "call")
             => lastErr' = "Not registered" /\ sessions' = sessions /\ ua' = 0
        /\ (ua = 0 /\ ua' # 0) => lastOp'.op = "connect"]_vars

\* C8 witness: after a disconnect() that stopped a registered UA, a call()
\* has just failed with the not-registered error.
C8_Witness ==
  /\ lastOp.op = "call"
  /\ lastErr = "Not registered"
  /\ ua = 0
  /\ \E u \in UAIds : uas[u].status = "stopped" /\ uas[u].unregPending

\* C9 (as claimed): the status last delivered to onConnectionChange is
\* 'registered' exactly when isRegistered() is true, and a registration
\* failure delivers 'error'.
C9_ShownStatusMatches ==
  /\ (connStatus = "registered") <=> Registered
  /\ lastOp.op = "registrationFailed" => "error" \in Range(connOut)

\* C10: an incoming session's first notification is 'incoming' and it gets
\* exactly one; an outgoing session gets none; and the notification comes
\* after the session is currentSession with its listeners installed: a
\* hangup() from inside it terminates that session and its 'failed' is
\* notified next, an answer() from inside it answers that session.
C10_IncomingNotified ==
  /\ \A s \in SessionIds :
       /\ sessions[s].direction = "incoming"
            => /\ callLog[s] # <<>>
               /\ callLog[s][1] = "incoming"
               /\ Count(callLog[s], "incoming") = 1
       /\ sessions[s].direction = "outgoing" => Count(callLog[s], "incoming") = 0
  /\ (lastOp.op = "invite" /\ lastOp.r1 = "hangup")
       => /\ sessions[lastOp.id].status = "terminated"
          /\ termCalls[lastOp.id] >= 1
          /\ Len(callLog[lastOp.id]) >= 2
          /\ callLog[lastOp.id][2] = "failed"
  /\ (lastOp.op = "invite" /\ lastOp.r1 = "answer")
       => /\ ansCalls[lastOp.id] >= 1
          /\ sessions[lastOp.id].status \in {"answered", "terminated"}

\* C10 witness: an invite has just been rejected by a hangup() from inside
\* its 'incoming' notification.
C10_Witness ==
  /\ lastOp.op = "invite"
  /\ lastOp.r1 = "hangup"
  /\ sessions[lastOp.id].status = "terminated"
  /\ callLog[lastOp.id] = <<"incoming", "failed">>
  /\ currentSession = 0

\* C11 (as claimed): answer() invokes the session's answer operation only
\* when currentSession is an incoming session still waiting for an answer,
\* and then answers it; in every other state answer() invokes nothing,
\* changes nothing and raises nothing.
C11_AnswerOnlyWhenRinging ==
  [][lastOp'.op = "answer"
       => IF /\ currentSession # 0
             /\ sessions[currentSession].direction = "incoming"
             /\ sessions[currentSession].status = "waiting_for_answer"
          THEN /\ sessions'[currentSession].status = "answered"
               /\ lastErr' = "none"
          ELSE /\ ansCalls' = ansCalls
               /\ sessions' = sessions
               /\ currentSession' = currentSession
               /\ lastErr' = "none"]_vars

NoRepeat(q) == \A i \in 1..(Len(q) - 1) : q[i] # q[i + 1]

\* C13 (as claimed): an outgoing session is notified from the moment call()
\* has placed it (its calling state), and no state is notified twice in a
\* row for it: the answer by the remote is two different notifications.
C13_OutgoingStatesInOrder ==
  \A s \in SessionIds :
    sessions[s].direction = "outgoing"
      => /\ callLog[s] # <<>>
         /\ NoRepeat(callLog[s])

ConnectionOps == {"connected", "disconnected", "registered", "unregistered",
                  "registrationFailed"}

\* The writes of currentSession a step may show: the assignment of the
\* newRTCSession handler (a session created in this step), the clear of a
\* 'failed'/'ended' handler (a session terminated in this step), and the
\* clear of hangup().
C17_WritesOnly ==
  [][/\ currentSession' # currentSession
          => \/ /\ currentSession' # 0
                /\ sessions[currentSession'].status = "none"
             \/ /\ currentSession' = 0
                /\ \/ lastOp'.op = "hangup"
                   \/ \E s \in SessionIds : /\ sessions[s].status # "terminated"
                                            /\ sessions'[s].status = "terminated"
     /\ lastOp'.op \in {"answer", "connect"} \cup ConnectionOps
          => currentSession' = currentSession]_vars

\* C17 (as claimed): after every step currentSession is null or a session
\* that has not ended or failed; currentSession changes only by the
\* assignment in the newRTCSession handler and the clears in the
\* 'failed'/'ended' handlers and in hangup(); answer(), connect() and the
\* connection events, which run none of these, leave it unchanged, and so do
\* call() and disconnect() but for the handlers they run.
C17_CurrentSessionLive ==
  /\ C17_WritesOnly
  /\ [][currentSession' = 0
          \/ sessions'[currentSession'].status \in LiveStatuses]_vars

\* C12 (as claimed): the audio elements attached for a session's remote
\* tracks are released when the session ends or fails: no terminated
\* session has an audio element left in the document.
C12_MediaReleased ==
  \A s \in SessionIds :
    sessions[s].status = "terminated" => audio[s] = 0

\* C14: a ringing incoming call does not ring forever.  Unless the application
\* answers it, its terminal notification is eventually delivered; and when the
\* ringing ends in 'failed' with no action of the application (the no-answer
\* timer, a cancel of the caller), that step delivers exactly the 'failed'
\* notification, raises no error and leaves currentSession null.
Ringing(s) ==
  /\ sessions[s].direction = "incoming"
  /\ sessions[s].status = "waiting_for_answer"

C15_RetriesBounded ==
  /\ regFails <= 5
  /\ lastOp.op = "registrationFailed" => lastErr = "none"

\* The pieces of a string between the occurrences of a character, by the
\* positions of the occurrences.
Pieces(str, c) ==
  LET P == {i \in 1..Len(str) : str[i] = c}
      at(k) == IF k = 0 THEN 0
               ELSE IF k = Cardinality(P) + 1 THEN Len(str) + 1
               ELSE CHOOSE p \in P : Cardinality({q \in P : q < p}) = k - 1
  IN [k \in 1..(Cardinality(P) + 1) |-> SubSeq(str, at(k - 1) + 1, at(k) - 1)]

\* A string from its first to its last character that is not white space.
Stripped(str) ==
  LET N == {i \in 1..Len(str) : str[i] \notin WhiteSpace}
  IN IF N = {} THEN <<>>
     ELSE SubSeq(str, CHOOSE i \in N : \A j \in N : i <= j,
                      CHOOSE i \in N : \A j \in N : j <= i)

\* The lines of the configured list and those that are not blank.
ConfigLines == Pieces(stunConfig, "\n")
NonBlank == {k \in DOMAIN ConfigLines : Stripped(ConfigLines[k]) # <<>>}

\* A line that is no server: its fields are neither one nor three, or its
\* URL is empty.
Malformed(line) ==
  LET fields == Pieces(line, ",")
  IN \/ Len(fields) \notin {1, 3}
     \/ Stripped(fields[1]) = <<>>

\* C16 (as claimed): a server list with a malformed line is rejected; no
\* pcConfig is built from it for a call or an answer.
C16_MalformedRejected ==
  pcConfig.built => \A k \in NonBlank : ~Malformed(ConfigLines[k])

\* C18: parseStunServers returns one entry per line that is not blank, in the
\* order of the lines; its single URL is the trimmed first field; it has a
\* username and a credential, the trimmed second and third fields, exactly
\* when the line has three fields.
C18_ParseStunServers ==
  pcConfig.built =>
    LET servers == pcConfig.iceServers
        lineOf(r) == CHOOSE k \in NonBlank :
                       Cardinality({j \in NonBlank : j < k}) = r - 1
    IN /\ Len(servers) = Cardinality(NonBlank)
       /\ \A r \in 1..Len(servers) :
            LET fields == Pieces(ConfigLines[lineOf(r)], ",")
            IN /\ servers[r].urls = <<Stripped(fields[1])>>
               /\ IF Len(fields) = 3
                  THEN /\ DOMAIN servers[r] = {"urls", "username", "credential"}
                       /\ servers[r].username = Stripped(fields[2])
                       /\ servers[r].credential = Stripped(fields[3])
                  ELSE DOMAIN servers[r] = {"urls"}

\* A list with a blank line and a line of three fields, the username and the
\* credential different, has been parsed.
C18_Witness ==
  /\ pcConfig.built
  /\ Cardinality(NonBlank) < Len(ConfigLines)
  /\ \E k \in NonBlank : Len(Pieces(ConfigLines[k], ",")) = 3
  /\ \E r \in 1..Len(pcConfig.iceServers) :
       /\ "username" \in DOMAIN pcConfig.iceServers[r]
       /\ pcConfig.iceServers[r].username # pcConfig.iceServers[r].credential

====
